---- MODULE Spec2Model ----
(***************************************************************************)
(* A model of the todo-lits application: the Express/MySQL backend         *)
(* (src/backend/index.js) and the React client (src/frontend/src/App.jsx). *)
(*                                                                         *)
(* The backend's handlers are async functions: every `await pool.query`    *)
(* is one SQL statement, atomic in the database, and other handlers run    *)
(* between two statements of one handler.  A handler is modelled by one    *)
(* action per statement; the code between two awaits belongs to the action *)
(* of the statement before it.                                             *)
(*                                                                         *)
(* The database and the network do not fail here: a statement fails only   *)
(* where the table's definition makes it fail (NULL into a NOT NULL        *)
(* column), the health check answers, and every response arrives.  The     *)
(* AUTO_INCREMENT counter only grows (the server is not restarted).  The   *)
(* driver reports the rows an UPDATE matched (mysql2 connects with         *)
(* FOUND_ROWS), so an UPDATE that changes nothing still finds its row.     *)
(***************************************************************************)
EXTENDS Integers, Sequences, FiniteSets, TLC

(***************************************************************************)
(* Bounds of the model.                                                    *)
(***************************************************************************)
\* rows ever inserted (caps the AUTO_INCREMENT counter)
MaxId == 2
\* last second of the database clock
MaxClock == 1
\* requests in flight at once
MaxInFlight == 2

VARIABLES
    todos,      \* the table: id -> row, for the ids that have a row
    nextId,     \* the table's AUTO_INCREMENT counter
    now,        \* the database clock, in seconds (TIMESTAMP resolution)
    deleted,    \* the ids a DELETE has removed (answered 204)
    hs,         \* the requests in flight: slot -> request, position, response
    view,       \* the client's `todos` state
    loading,    \* the client's `loading` state
    mounted     \* whether the client's mount effect has run

vars == <<todos, nextId, now, deleted, hs, view, loading, mounted>>
db == <<todos, nextId, now, deleted>>
app == <<view, loading, mounted>>

(***************************************************************************)
(* JavaScript / JSON / SQL values.  A string is a sequence of characters;  *)
(* every value carries its type, so that values of different types can be  *)
(* compared.                                                               *)
(***************************************************************************)
Undefined == [k |-> "undefined"]
Null == [k |-> "null"]
Str(s) == [k |-> "string", v |-> s]
Bool(b) == [k |-> "boolean", v |-> b]
Num(n) == [k |-> "number", v |-> n]
ErrBody == [k |-> "error"]
List(q) == [k |-> "list", v |-> q]

IsSpace(c) == c = " "

RECURSIVE TrimStart(_)
TrimStart(s) ==
    IF s # <<>> /\ IsSpace(Head(s)) THEN TrimStart(Tail(s)) ELSE s

RECURSIVE TrimEnd(_)
TrimEnd(s) ==
    IF s # <<>> /\ IsSpace(s[Len(s)]) THEN TrimEnd(SubSeq(s, 1, Len(s) - 1)) ELSE s

\* String.prototype.trim
Trim(s) == TrimEnd(TrimStart(s))

\* !v for the values a JSON body carries here
Falsy(v) ==
    \/ v = Undefined
    \/ v = Null
    \/ v = Str(<<>>)
    \/ v = Bool(FALSE)
    \/ v = Num(0)

\* SqlString.escape, as pool.query applies it to a parameter, followed by
\* the column's conversion: undefined and null are NULL, true and false are
\* 1 and 0.
SqlParam(v) ==
    IF v = Undefined \/ v = Null THEN Null
    ELSE IF v.k = "boolean" THEN (IF v.v THEN Num(1) ELSE Num(0))
    ELSE v

(***************************************************************************)
(* The inputs.                                                             *)
(***************************************************************************)
PostTitles ==
    { Undefined, Str(<<>>), Str(<<" ", " ">>), Str(<<" ", "a", " ">>) }

PostDescriptions ==
    { Undefined, Str(<<" ">>), Str(<<"d", " ">>) }

PutBodies ==
    { [title |-> Str(<<"c">>), description |-> Str(<<"e">>), completed |-> Bool(TRUE)],
      [title |-> Str(<<>>), description |-> Undefined, completed |-> Undefined],
      [title |-> Undefined, description |-> Str(<<"e">>), completed |-> Bool(FALSE)] }

\* MaxId + 1 is an id the table never issues
RequestIds == 1 .. (MaxId + 1)

Slots == 1 .. MaxInFlight

Idle ==
    [pc |-> "idle", from |-> "none", method |-> "none", id |-> 0,
     title |-> Undefined, description |-> Undefined, completed |-> Undefined,
     snap |-> <<>>, dirty |-> FALSE, status |-> 0, body |-> Undefined]

Request(from, method, id, title, description, completed, snap) ==
    [Idle EXCEPT !.from = from, !.method = method, !.id = id, !.title = title,
                 !.description = description, !.completed = completed,
                 !.snap = snap]

IsIdle(s) == hs[s].pc = "idle"

\* Slots are interchangeable: a new request takes the first idle one.
FreeSlot == CHOOSE s \in Slots : IsIdle(s) /\ \A t \in Slots : t < s => ~IsIdle(t)

HasFreeSlot == \E s \in Slots : IsIdle(s)

(***************************************************************************)
(* The table `todos` (CREATE TABLE, index.js 93-101) and its statements.   *)
(***************************************************************************)
EmptyTable == [i \in {} |-> Null]

Init ==
    /\ todos = EmptyTable
    /\ nextId = 1
    /\ now = 0
    /\ deleted = {}
    /\ hs = [s \in Slots |-> Idle]
    /\ view = <<>>
    /\ loading = TRUE
    /\ mounted = FALSE

\* a counter recomputed from the rows left: the largest id, plus one
InsertIdReuse ==
    IF DOMAIN todos = {} THEN 1
    ELSE (CHOOSE m \in DOMAIN todos : \A i \in DOMAIN todos : i <= m) + 1

\* id INT AUTO_INCREMENT PRIMARY KEY: the id an INSERT gets
InsertId == nextId

\* completed BOOLEAN DEFAULT FALSE, created_at TIMESTAMP DEFAULT CURRENT_TIMESTAMP
NewRow(id, title, description) ==
    [id |-> id, title |-> title, description |-> description,
     completed |-> Num(0), created_at |-> now]

\* the check without its trim: !title alone
BlankTitleNoTrim(title) == Falsy(title)

\* !title || title.trim() === ''
BlankTitle(title) ==
    Falsy(title) \/ (title.k = "string" /\ Trim(title.v) = <<>>)

\* title.trim()
TitleParam(title) == Str(Trim(title.v))

\* the parameter without its `|| null`
DescriptionParamNoNull(description) ==
    IF description = Undefined \/ description = Null THEN Null
    ELSE Str(Trim(description.v))

\* description?.trim() || null
DescriptionParam(description) ==
    IF description = Undefined \/ description = Null THEN Null
    ELSE IF Falsy(Str(Trim(description.v))) THEN Null
    ELSE Str(Trim(description.v))

\* SELECT * FROM todos WHERE id = ?, then rows[0]
SelectById(id) == IF id \in DOMAIN todos THEN todos[id] ELSE Undefined

\* UPDATE todos SET title = ?, description = ?, completed = ? WHERE id = ?,
\* on the row it matches
UpdatedRow(row, title, description, completed) ==
    [row EXCEPT !.title = title, !.description = description,
                !.completed = completed]

\* SELECT * FROM todos ORDER BY created_at DESC: every row once, a later
\* created_at first; the order of rows with one created_at is the server's choice
Orderings ==
    { [i \in 1 .. Cardinality(DOMAIN todos) |-> todos[f[i]]] :
        f \in { g \in [1 .. Cardinality(DOMAIN todos) -> DOMAIN todos] :
                  /\ \A i, j \in DOMAIN g : i # j => g[i] # g[j]
                  /\ \A i, j \in DOMAIN g :
                        i < j => todos[g[i]].created_at >= todos[g[j]].created_at } }

(***************************************************************************)
(* The handlers.                                                           *)
(***************************************************************************)
\* res.status(status).json(body)
Respond(h, status, body) ==
    [h EXCEPT !.pc = "done", !.status = status, !.body = body]

\* A handler between its write and its re-read learns nothing of another
\* handler's write to the same row; `dirty` records that there was one.
Mark(h, id) ==
    IF h.pc \in {"post_select", "put_select"} /\ h.id = id
    THEN [h EXCEPT !.dirty = TRUE]
    ELSE h

\* handler s moves to h after writing row id
Written(s, h, id) == [t \in Slots |-> IF t = s THEN h ELSE Mark(hs[t], id)]

\* app.post('/api/todos'), to the INSERT
Post(s, rq) ==
    IF BlankTitle(rq.title)
    THEN /\ hs' = [hs EXCEPT ![s] = Respond(rq, 400, ErrBody)]
         /\ UNCHANGED db
    ELSE /\ nextId <= MaxId
         /\ todos' = [i \in DOMAIN todos \cup {InsertId} |->
                        IF i = InsertId
                        THEN NewRow(InsertId, TitleParam(rq.title),
                                    DescriptionParam(rq.description))
                        ELSE todos[i]]
         /\ nextId' = InsertId + 1
         /\ hs' = [hs EXCEPT ![s] = [rq EXCEPT !.pc = "post_select", !.id = InsertId]]
         /\ UNCHANGED <<now, deleted>>

\* the re-read by the table's last generated id instead of result.insertId
PostSelectLast(s) ==
    /\ hs[s].pc = "post_select"
    /\ hs' = [hs EXCEPT ![s] = Respond(hs[s], 201, SelectById(nextId - 1))]
    /\ UNCHANGED db

\* app.post('/api/todos'), the re-read and the response
PostSelect(s) ==
    /\ hs[s].pc = "post_select"
    /\ hs' = [hs EXCEPT ![s] = Respond(hs[s], 201, SelectById(hs[s].id))]
    /\ UNCHANGED db

\* the handler without its affectedRows check
PutNoCheck(s, rq) ==
    /\ todos' = [i \in DOMAIN todos |->
                    IF i = rq.id
                    THEN UpdatedRow(todos[i], SqlParam(rq.title),
                                    SqlParam(rq.description), SqlParam(rq.completed))
                    ELSE todos[i]]
    /\ hs' = Written(s, [rq EXCEPT !.pc = "put_select"], rq.id)
    /\ UNCHANGED <<nextId, now, deleted>>

\* app.put('/api/todos/:id'), to the UPDATE
Put(s, rq) ==
    IF rq.id \notin DOMAIN todos
    THEN /\ hs' = [hs EXCEPT ![s] = Respond(rq, 404, ErrBody)]
         /\ UNCHANGED db
    ELSE IF SqlParam(rq.title) = Null
    THEN \* title VARCHAR(255) NOT NULL
         \/ \* strict SQL mode: the statement fails, the handler catches
            /\ hs' = [hs EXCEPT ![s] = Respond(rq, 500, ErrBody)]
            /\ UNCHANGED db
         \/ \* otherwise the column takes its implicit default, ''
            /\ todos' = [todos EXCEPT ![rq.id] =
                            UpdatedRow(@, Str(<<>>), SqlParam(rq.description),
                                       SqlParam(rq.completed))]
            /\ hs' = Written(s, [rq EXCEPT !.pc = "put_select"], rq.id)
            /\ UNCHANGED <<nextId, now, deleted>>
    ELSE /\ todos' = [todos EXCEPT ![rq.id] =
                         UpdatedRow(@, SqlParam(rq.title), SqlParam(rq.description),
                                    SqlParam(rq.completed))]
         /\ hs' = Written(s, [rq EXCEPT !.pc = "put_select"], rq.id)
         /\ UNCHANGED <<nextId, now, deleted>>

\* app.put('/api/todos/:id'), the re-read and the response
PutSelect(s) ==
    /\ hs[s].pc = "put_select"
    /\ hs' = [hs EXCEPT ![s] = Respond(hs[s], 200, SelectById(hs[s].id))]
    /\ UNCHANGED db

\* app.delete('/api/todos/:id')
Delete(s, rq) ==
    IF rq.id \notin DOMAIN todos
    THEN /\ hs' = [hs EXCEPT ![s] = Respond(rq, 404, ErrBody)]
         /\ UNCHANGED db
    ELSE /\ todos' = [i \in DOMAIN todos \ {rq.id} |-> todos[i]]
         /\ deleted' = deleted \cup {rq.id}
         /\ hs' = Written(s, Respond(rq, 204, Undefined), rq.id)
         /\ UNCHANGED <<nextId, now>>

\* app.get('/api/todos')
Get(s, rq) ==
    /\ \E rows \in Orderings : hs' = [hs EXCEPT ![s] = Respond(rq, 200, List(rows))]
    /\ UNCHANGED db

(***************************************************************************)
(* Requests made of the API directly (curl, another program).              *)
(***************************************************************************)
ApiPost ==
    /\ HasFreeSlot
    /\ \E t \in PostTitles, d \in PostDescriptions :
          Post(FreeSlot, Request("api", "post", 0, t, d, Undefined, <<>>))
    /\ UNCHANGED app

ApiPutOf(ids, bodies) ==
    /\ HasFreeSlot
    /\ \E id \in ids, b \in bodies :
          Put(FreeSlot, Request("api", "put", id, b.title, b.description,
                                b.completed, <<>>))
    /\ UNCHANGED app

ApiPut == ApiPutOf(RequestIds, PutBodies)

ApiDelete ==
    /\ HasFreeSlot
    /\ \E id \in RequestIds :
          Delete(FreeSlot, Request("api", "delete", id, Undefined, Undefined,
                                   Undefined, <<>>))
    /\ UNCHANGED app

ApiGet ==
    /\ HasFreeSlot
    /\ Get(FreeSlot, Request("api", "get", 0, Undefined, Undefined, Undefined, <<>>))
    /\ UNCHANGED app

\* the handlers' second statements
ServerStep ==
    /\ \E s \in Slots : PostSelect(s) \/ PutSelect(s)
    /\ UNCHANGED app

\* the caller has its response
ApiRecv ==
    /\ \E s \in Slots :
          /\ hs[s].pc = "done"
          /\ hs[s].from = "api"
          /\ hs' = [hs EXCEPT ![s] = Idle]
    /\ UNCHANGED <<db, app>>

\* The seconds pass.
Tick ==
    /\ now < MaxClock
    /\ now' = now + 1
    /\ UNCHANGED <<todos, nextId, deleted, hs, app>>

Next ==
    \/ ApiPost
    \/ ApiPut
    \/ ApiDelete
    \/ ApiGet
    \/ ServerStep
    \/ ApiRecv
    \/ Tick

Spec == Init /\ [][Next]_vars

(***************************************************************************)
(* The client (App.jsx).  A request of the client is in flight from the    *)
(* user's action ("sent") until the client's continuation has run on the   *)
(* response; `snap` is the `todos` of the render in which the user acted,  *)
(* which is the `todos` the handler's closure holds.                       *)
(***************************************************************************)
\* what the user types in the form
FormTitles == { <<" ">>, <<"a", " ">> }

FormDescriptions == { <<"d", " ">> }

Send(rq) == hs' = [hs EXCEPT ![FreeSlot] = [rq EXCEPT !.pc = "sent"]]

\* response.ok
Ok(h) == h.status \in 200 .. 299

\* response.ok, and response.json() has a row to parse
Usable(h) == Ok(h) /\ (h.method \in {"post", "put"} => h.body # Undefined)

ViewIds == { view[n].id : n \in 1 .. Len(view) }

\* todos.find(t => t.id === id)
Find(list, id) ==
    list[CHOOSE n \in 1 .. Len(list) :
            list[n].id = id /\ \A m \in 1 .. (n - 1) : list[m].id # id]

RECURSIVE Filter(_, _)
\* todos.filter(todo => todo.id !== id)
Filter(list, id) ==
    IF list = <<>> THEN <<>>
    ELSE IF Head(list).id = id THEN Filter(Tail(list), id)
    ELSE <<Head(list)>> \o Filter(Tail(list), id)

\* todos.map(t => t.id === id ? updatedTodo : t)
Map(list, id, updatedTodo) ==
    [n \in 1 .. Len(list) |-> IF list[n].id = id THEN updatedTodo ELSE list[n]]

\* the `todos` a continuation reads: its closure's, not the current state
ClosureCurrent(h) == view

Closure(h) == h.snap

\* the argument of the continuation's setTodos
NewList(h) ==
    CASE h.method = "get" -> h.body.v
      [] h.method = "post" -> <<h.body>> \o Closure(h)
      [] h.method = "delete" -> Filter(Closure(h), h.id)
      [] h.method = "put" -> Map(Closure(h), h.id, h.body)

\* { ...todo, completed: !todo.completed } with only the field that changes
ToggleBodyPatch(todo) ==
    [title |-> Undefined, description |-> Undefined,
     completed |-> Bool(Falsy(todo.completed))]

\* { ...todo, completed: !todo.completed }
ToggleBody(todo) ==
    [title |-> todo.title, description |-> todo.description,
     completed |-> Bool(Falsy(todo.completed))]

\* the mount effect: the health check answers, fetchTodos starts
AppMount ==
    /\ ~mounted
    /\ HasFreeSlot
    /\ mounted' = TRUE
    /\ loading' = TRUE
    /\ Send(Request("app", "get", 0, Undefined, Undefined, Undefined, view))
    /\ UNCHANGED <<db, view>>

\* fetchTodos, from the refresh button
AppRefresh ==
    /\ mounted
    /\ ~loading
    /\ HasFreeSlot
    /\ loading' = TRUE
    /\ Send(Request("app", "get", 0, Undefined, Undefined, Undefined, view))
    /\ UNCHANGED <<db, view, mounted>>

\* handleSubmit, to its fetch
HandleSubmit ==
    /\ mounted
    /\ ~loading
    /\ HasFreeSlot
    /\ \E title \in FormTitles, description \in FormDescriptions :
          IF Trim(title) = <<>>
          THEN UNCHANGED hs
          ELSE Send(Request("app", "post", 0, Str(Trim(title)),
                            Str(Trim(description)), Undefined, view))
    /\ UNCHANGED <<db, app>>

\* handleDelete, to its fetch
HandleDelete ==
    /\ mounted
    /\ ~loading
    /\ HasFreeSlot
    /\ \E id \in ViewIds :
          Send(Request("app", "delete", id, Undefined, Undefined, Undefined, view))
    /\ UNCHANGED <<db, app>>

\* toggleComplete, to its fetch
ToggleComplete ==
    /\ mounted
    /\ ~loading
    /\ HasFreeSlot
    /\ \E id \in ViewIds :
          Send(Request("app", "put", id, ToggleBody(Find(view, id)).title,
                       ToggleBody(Find(view, id)).description,
                       ToggleBody(Find(view, id)).completed, view))
    /\ UNCHANGED <<db, app>>

\* the server takes a request of the client
ServerHandle ==
    /\ \E s \in Slots :
          /\ hs[s].pc = "sent"
          /\ CASE hs[s].method = "post" -> Post(s, hs[s])
               [] hs[s].method = "put" -> Put(s, hs[s])
               [] hs[s].method = "delete" -> Delete(s, hs[s])
               [] hs[s].method = "get" -> Get(s, hs[s])
    /\ UNCHANGED app

\* the continuation of the client's fetch, on the response
AppRecv ==
    /\ \E s \in Slots :
          /\ hs[s].pc = "done"
          /\ hs[s].from = "app"
          /\ view' = IF Usable(hs[s]) THEN NewList(hs[s]) ELSE view
          /\ loading' = IF hs[s].method = "get" THEN FALSE ELSE loading
          /\ hs' = [hs EXCEPT ![s] = Idle]
    /\ UNCHANGED <<db, mounted>>

\* what another writer to the API sends
EditBodies ==
    { [title |-> Str(<<"c">>), description |-> Str(<<"e">>), completed |-> Bool(TRUE)] }

\* the row it edits
EditIds == {1}

ApiEdit == ApiPutOf(EditIds, EditBodies)

\* the client, the server and another writer to the API
AppNext ==
    \/ AppMount
    \/ AppRefresh
    \/ HandleSubmit
    \/ HandleDelete
    \/ ToggleComplete
    \/ ServerHandle
    \/ ServerStep
    \/ AppRecv
    \/ ApiEdit
    \/ ApiRecv

AppSpec == Init /\ [][AppNext]_vars

(***************************************************************************)
(* Vocabulary of the properties.                                           *)
(***************************************************************************)
\* the step in which slot s's handler runs its first statement
Handled(s) == hs[s].pc \in {"idle", "sent"} /\ hs'[s].pc \notin {"idle", "sent"}

\* the step in which slot s's handler sends its response
Answered(s) == hs[s].pc # "done" /\ hs'[s].pc = "done"

\* a title that is absent, empty or made of white space only
AbsentOrBlank(v) ==
    \/ v \in {Undefined, Null}
    \/ v.k = "string" /\ \A i \in 1 .. Len(v.v) : v.v[i] = " "

\* t is s without its leading and trailing white space
IsTrimOf(t, s) ==
    /\ \E i, j \in 0 .. Len(s) :
          /\ i + j <= Len(s)
          /\ t = SubSeq(s, i + 1, Len(s) - j)
          /\ \A n \in 1 .. i : s[n] = " "
          /\ \A n \in (Len(s) - j + 1) .. Len(s) : s[n] = " "
    /\ t = <<>> \/ (t[1] # " " /\ t[Len(t)] # " ")

\* the ids of the rows of a list body
ListIds(body) == { body.v[i].id : i \in 1 .. Len(body.v) }

(***************************************************************************)
(* C1.  Every stored row has a title that is not empty and not white space *)
(* only, whatever POST, PUT and DELETE requests were made.                 *)
(***************************************************************************)
C1_StoredTitlesNonBlank ==
    \A i \in DOMAIN todos : ~AbsentOrBlank(todos[i].title)

(***************************************************************************)
(* C2.  Every stored row has completed TRUE (1) or FALSE (0), never NULL,  *)
(* whatever POST, PUT and DELETE requests were made.                       *)
(***************************************************************************)
C2_CompletedIsBoolean ==
    \A i \in DOMAIN todos : todos[i].completed \in {Num(0), Num(1)}

(***************************************************************************)
(* C3.  A POST whose title is absent, empty or white space only is         *)
(* answered 400 and leaves the table as it was.                            *)
(***************************************************************************)
C3_BlankPostRejected ==
    [][\A s \in Slots :
          (Handled(s) /\ hs'[s].method = "post" /\ AbsentOrBlank(hs'[s].title))
          => /\ hs'[s].pc = "done"
             /\ hs'[s].status = 400
             /\ todos' = todos
             /\ nextId' = nextId]_vars

C3_Witness ==
    \E s \in Slots :
        /\ hs[s].pc = "done"
        /\ hs[s].method = "post"
        /\ hs[s].title = Str(<<" ", " ">>)
        /\ hs[s].status = 400
        /\ DOMAIN todos # {}

(***************************************************************************)
(* C4 as stated.  After a successful POST, a listing holds the created row *)
(* exactly once, with completed FALSE and with the title and description   *)
(* as submitted (NULL for an absent description).                          *)
(***************************************************************************)
C4_ListedAsSubmitted ==
    [][\A s \in Slots :
          (Handled(s) /\ hs'[s].method = "post" /\ hs'[s].pc = "post_select")
          => \A rows \in Orderings' :
                /\ Cardinality({n \in 1 .. Len(rows) : rows[n].id = hs'[s].id}) = 1
                /\ \A n \in 1 .. Len(rows) :
                      rows[n].id = hs'[s].id
                      => /\ rows[n].completed = Num(0)
                         /\ rows[n].title = hs'[s].title
                         /\ rows[n].description =
                               (IF hs'[s].description = Undefined
                                THEN Null ELSE hs'[s].description)]_vars

(***************************************************************************)
(* C4, amended.  After a successful POST, a listing holds the created row  *)
(* exactly once, under an id no row had, with completed FALSE, the title   *)
(* trimmed, and the description trimmed, or NULL when the description is   *)
(* absent or empty once trimmed.                                           *)
(***************************************************************************)
C4_ListedTrimmed ==
    [][\A s \in Slots :
          (Handled(s) /\ hs'[s].method = "post" /\ hs'[s].pc = "post_select")
          => /\ hs'[s].id \notin DOMAIN todos
             /\ \A rows \in Orderings' :
                /\ Cardinality({n \in 1 .. Len(rows) : rows[n].id = hs'[s].id}) = 1
                /\ \A n \in 1 .. Len(rows) :
                      rows[n].id = hs'[s].id
                      => /\ rows[n].completed = Num(0)
                         /\ rows[n].title.k = "string"
                         /\ IsTrimOf(rows[n].title.v, hs'[s].title.v)
                         /\ IF hs'[s].description = Undefined
                            THEN rows[n].description = Null
                            ELSE IF IsTrimOf(<<>>, hs'[s].description.v)
                            THEN rows[n].description = Null
                            ELSE /\ rows[n].description.k = "string"
                                 /\ IsTrimOf(rows[n].description.v,
                                             hs'[s].description.v)]_vars

C4_Witness ==
    \E s, t \in Slots :
        /\ hs[s].pc = "done" /\ hs[s].method = "post" /\ hs[s].status = 201
        /\ hs[s].description = Str(<<" ">>)
        /\ hs[t].pc = "done" /\ hs[t].method = "get"
        /\ \E n \in 1 .. Len(hs[t].body.v) :
              /\ hs[t].body.v[n].id = hs[s].id
              /\ hs[t].body.v[n].title = Str(<<"a">>)
              /\ hs[t].body.v[n].description = Null

(***************************************************************************)
(* C5.  A PUT or DELETE whose id matches no row is answered 404 and leaves *)
(* the table as it was.                                                    *)
(***************************************************************************)
C5_UnknownIdNotFound ==
    [][\A s \in Slots :
          (/\ Handled(s)
           /\ hs'[s].method \in {"put", "delete"}
           /\ hs'[s].id \notin DOMAIN todos)
          => /\ hs'[s].pc = "done"
             /\ hs'[s].status = 404
             /\ todos' = todos
             /\ nextId' = nextId]_vars

C5_Witness ==
    /\ DOMAIN todos # {}
    /\ \E s, t \in Slots :
          /\ hs[s].pc = "done" /\ hs[s].method = "put"
          /\ hs[s].id = MaxId + 1 /\ hs[s].status = 404
          /\ hs[t].pc = "done" /\ hs[t].method = "delete"
          /\ hs[t].id \notin DOMAIN todos /\ hs[t].status = 404

(***************************************************************************)
(* C6.  Once a DELETE of an id has been answered 204, no row has that id   *)
(* again, no later listing holds it, whatever requests follow, and every   *)
(* later DELETE of it is answered 404.                                     *)
(***************************************************************************)
C6_DeletedStaysDeleted ==
    [][/\ deleted \subseteq deleted'
       /\ deleted' \cap DOMAIN todos' = {}
       /\ \A s \in Slots :
             /\ (Answered(s) /\ hs'[s].method = "get")
                => ListIds(hs'[s].body) \cap deleted' = {}
             /\ (Handled(s) /\ hs'[s].method = "delete" /\ hs'[s].id \in deleted)
                => hs'[s].status = 404]_vars

C6_Witness ==
    /\ \E i \in deleted : \E j \in DOMAIN todos : j > i
    /\ \E s, t \in Slots :
          /\ hs[s].pc = "done" /\ hs[s].method = "delete"
          /\ hs[s].id \in deleted /\ hs[s].status = 404
          /\ hs[t].pc = "done" /\ hs[t].method = "get"
          /\ Len(hs[t].body.v) > 0

(***************************************************************************)
(* C7.  GET lists the rows most recently created first: a row created      *)
(* later (a larger generated id) never comes after one created earlier,    *)
(* rows inserted in the same second included.                              *)
(***************************************************************************)
C7_NewestFirst ==
    \A s \in Slots :
        (hs[s].pc = "done" /\ hs[s].method = "get" /\ hs[s].status = 200)
        => \A i, j \in 1 .. Len(hs[s].body.v) :
              i < j => hs[s].body.v[i].id > hs[s].body.v[j].id

(***************************************************************************)
(* The row a successful POST or PUT wrote.                                 *)
(***************************************************************************)
Success(h) ==
    \/ h.method = "put" /\ h.status = 200
    \/ h.method = "post" /\ h.status = 201

CarriesOwnValues(h) ==
    /\ h.body # Undefined
    /\ h.body.id = h.id
    /\ IF h.method = "post"
       THEN /\ h.body.title = TitleParam(h.title)
            /\ h.body.description = DescriptionParam(h.description)
            /\ h.body.completed = Num(0)
       ELSE /\ h.body.title =
                  (IF SqlParam(h.title) = Null THEN Str(<<>>) ELSE SqlParam(h.title))
            /\ h.body.description = SqlParam(h.description)
            /\ h.body.completed = SqlParam(h.completed)

(***************************************************************************)
(* C10 as stated.  Under every interleaving, a successful PUT or POST      *)
(* carries the row with the request's own values, never a missing row or   *)
(* another request's values.                                               *)
(***************************************************************************)
C10_SuccessCarriesOwnRow ==
    \A s \in Slots : (hs[s].pc = "done" /\ Success(hs[s])) => CarriesOwnValues(hs[s])

(***************************************************************************)
(* C10, amended.  A successful PUT or POST carries what the table holds    *)
(* under the request's id when the handler re-reads it (nothing when the   *)
(* row is gone); that is the row with the request's own values when no     *)
(* other request wrote to the row between the handler's write and its      *)
(* re-read.                                                                *)
(***************************************************************************)
C10_SuccessCarriesRereadRow ==
    [][\A s \in Slots :
          (Answered(s) /\ Success(hs'[s]))
          => /\ hs'[s].body =
                   (IF hs[s].id \in DOMAIN todos THEN todos[hs[s].id] ELSE Undefined)
             /\ ~hs[s].dirty => CarriesOwnValues(hs'[s])]_vars

C10_Witness ==
    \E s, t \in Slots :
        /\ hs[s].pc = "done" /\ hs[s].method = "put" /\ hs[s].status = 200
        /\ hs[s].dirty
        /\ hs[s].body # Undefined
        /\ hs[s].body.title # hs[s].title
        /\ hs[t].pc = "done" /\ hs[t].method = "post" /\ hs[t].status = 201
        /\ ~hs[t].dirty

(***************************************************************************)
(* The client's toggle: the step in which the server takes the PUT that    *)
(* toggleComplete sent for a row the table holds.                          *)
(***************************************************************************)
ToggleTaken(s) ==
    /\ Handled(s)
    /\ hs'[s].from = "app"
    /\ hs'[s].method = "put"
    /\ hs'[s].id \in DOMAIN todos

\* the client's copy of the row, in the list it toggled in
LocalCopy(h) == Find(h.snap, h.id)

\* completed, negated
Negated(completed) == IF completed \in {Num(0), Null} THEN Num(1) ELSE Num(0)

\* what a re-fetch after the toggle lists under the toggled id
Toggled(s, title, description) ==
    /\ hs'[s].pc = "put_select"
    /\ \A rows \in Orderings' :
          /\ Cardinality({n \in 1 .. Len(rows) : rows[n].id = hs'[s].id}) = 1
          /\ \A n \in 1 .. Len(rows) :
                rows[n].id = hs'[s].id
                => /\ rows[n].completed = Negated(LocalCopy(hs'[s]).completed)
                   /\ rows[n].title = title
                   /\ rows[n].description = description
                   /\ rows[n].created_at = todos[hs'[s].id].created_at

(***************************************************************************)
(* C8 as stated.  After the client's toggle of an existing row, a re-fetch *)
(* yields the row with completed negated and with the title, description,  *)
(* id and created_at the stored row had before the toggle.                 *)
(***************************************************************************)
C8_ToggleKeepsStored ==
    [][\A s \in Slots :
          ToggleTaken(s)
          => Toggled(s, todos[hs'[s].id].title, todos[hs'[s].id].description)]_vars

(***************************************************************************)
(* C8, amended.  After the client's toggle of an existing row, a re-fetch  *)
(* yields the row with completed negated, with the id and created_at the   *)
(* stored row had, and with the title and description of the client's copy *)
(* of the row; these are the stored row's when the client's copy agrees    *)
(* with the stored row on them.                                            *)
(***************************************************************************)
C8_ToggleWritesLocalCopy ==
    [][\A s \in Slots :
          ToggleTaken(s)
          => /\ Toggled(s, LocalCopy(hs'[s]).title, LocalCopy(hs'[s]).description)
             /\ (/\ LocalCopy(hs'[s]).title = todos[hs'[s].id].title
                 /\ LocalCopy(hs'[s]).description = todos[hs'[s].id].description)
                => Toggled(s, todos[hs'[s].id].title,
                           todos[hs'[s].id].description)]_vars

C8_Witness ==
    \E s, t \in Slots :
        /\ hs[s].from = "app" /\ hs[s].method = "put"
        /\ hs[s].pc = "done" /\ hs[s].status = 200
        /\ hs[s].body = [LocalCopy(hs[s]) EXCEPT !.completed = Num(1)]
        /\ hs[t].from = "app" /\ hs[t].method = "get" /\ hs[t].pc = "done"
        /\ \E n \in 1 .. Len(hs[t].body.v) : hs[t].body.v[n] = hs[s].body

(***************************************************************************)
(* The client's mutations in flight.                                       *)
(***************************************************************************)
Mutation(h) == h.from = "app" /\ h.method \in {"post", "put", "delete"}

\* the step in which the client's continuation runs on slot s's response
Arrived(s) == hs[s].pc = "done" /\ hs[s].from = "app" /\ hs'[s].pc = "idle"

\* the list a continuation makes of the list its handler captured
FromSnapshot(h) ==
    CASE h.method = "post" -> <<h.body>> \o h.snap
      [] h.method = "delete" -> Filter(h.snap, h.id)
      [] h.method = "put" -> Map(h.snap, h.id, h.body)

(***************************************************************************)
(* C9 as stated.  With several mutations in flight, the list after all     *)
(* responses have arrived is the one the last response to arrive wrote,    *)
(* made of the list its handler captured when the user acted.              *)
(***************************************************************************)
C9_LastResponseWrites ==
    [][\A s \in Slots :
          (/\ Arrived(s)
           /\ Mutation(hs[s])
           /\ \A t \in Slots \ {s} : hs[t].from # "app")
          => view' = FromSnapshot(hs[s])]_vars

(***************************************************************************)
(* C9, amended.  Every response of a mutation that arrives with a success  *)
(* status (and, for create and toggle, a row in its body) replaces the     *)
(* list by one made of the list its handler captured when the user acted,  *)
(* whatever the list is by then; a response with an error status or no row *)
(* leaves the list as it is.  So the list after all responses have arrived *)
(* is the one the last such successful response wrote.                     *)
(***************************************************************************)
C9_LastSuccessWrites ==
    [][\A s \in Slots :
          (Arrived(s) /\ Mutation(hs[s]))
          => view' = IF Usable(hs[s]) THEN FromSnapshot(hs[s]) ELSE view]_vars

C9_Witness ==
    \E s \in Slots :
        /\ hs[s].pc = "done"
        /\ Mutation(hs[s])
        /\ Usable(hs[s])
        /\ hs[s].snap # view
        /\ FromSnapshot(hs[s]) # view
        /\ \A t \in Slots \ {s} : IsIdle(t)
====
